---- MODULE Spec2Model ----
(***************************************************************************)
(* Model of the entity-component-system registry PrimatoECS                *)
(* (src/lib/entity-component-system.ts): entity storage, the systems map   *)
(* with its per-system entity sets, the deferred-destruction queue and the *)
(* update cycle, together with the callbacks a System may make into the    *)
(* registry while its update runs.                                         *)
(***************************************************************************)
EXTENDS Integers, Sequences, FiniteSets, TLC

\* ------------------------------------------------------------------ bounds
MaxEntities == 2      \* addEntity is called at most this many times
MaxQueue    == 1      \* removeEntity is called at most this many times
MaxLoads    == 2      \* GameAsset.load is called at most this many times
MaxChunks   == 2      \* a response body arrives in at most this many chunks

\* ---------------------------------------------------- the modelled universe
\* Component classes (the keys of ComponentContainer.#map).
ComponentTypes == {"A", "B"}

\* The data a component instance of class A may carry.
Payloads == {1, 2}

\* A component instance: its constructor (class) and its data. Class A has a
\* data field; class B has none, so all its instances carry the same data.
Component ==
    {[type |-> "A", value |-> p] : p \in Payloads} \cup {[type |-> "B", value |-> 1]}

\* Entity arguments a caller may pass: the ids addEntity can issue, whether
\* issued already or not.
EntityIds == 0..(MaxEntities - 1)

\* The System objects of the model.
Systems == {"S_any", "S_all", "S_none"}

\* The system a Scene registers, and the component classes it targets.
SceneSystem == "SceneSystem"

ActorComponent == "ActorComponent"

AccessoryComponent == "AccessoryComponent"

\* The Actor objects a caller may hand to Scene.addActor.
Actors == {"actor1", "actor2"}

targetComponentTypes(system) ==
    CASE system = "S_any"  -> {"A", "B"}
      [] system = "S_all"  -> {"A", "B"}
      [] system = "S_none" -> {}
      [] system = SceneSystem -> {ActorComponent, AccessoryComponent}

requireAllComponentTypes(system) == system = "S_all"

VARIABLES
    entities,            \* #entities : Map<Entity, ComponentContainer>
    systems,             \* #systems : Map<System, Set<Entity>>, in insertion order
    nextEntityId,        \* #nextEntityId
    entitiesToDestroy,   \* #entitiesToDestroy
    pc,                  \* position of update(): "idle", "systems" or "drain"
    current,             \* index in #systems of the system whose update is running
    invoked,             \* systems whose update was called by the running update()
    status,              \* error raised by the last call: "none", "threw" (out
                         \* of update()) or "configError" (out of addSystem())
    lastEntity,          \* value returned by the last addEntity(), -1 if none
    issued,              \* every value addEntity() has returned
    queuedLive,          \* entities that were in storage when removeEntity was
                         \* called for them
    registrationOrder,   \* registered systems, in the order they were registered
    entityActors,        \* SceneSystem.entityActors : Map<Entity, Actor>
    visited,             \* entities the running SceneSystem.update has iterated over
    updated,             \* entities for which the running or the last
                         \* SceneSystem.update called entityActor.update
    destroyedActors,     \* entities that had an actor when destroyActor was
                         \* called for them
    loadingPromise,      \* GameAsset.loadingPromise: 0 for undefined, else the
                         \* number of the load() call that created the promise
    loads,               \* the load() calls made on the asset, in call order:
                         \* where each call stands, the chunks its fetchAsset
                         \* has received, and whether its fetchAsset threw
    bytes                \* GameAsset.bytes.length, with chunks of one byte

\* The state of a Scene beside its registry, and the state of a GameAsset.
sceneVars == <<entityActors, visited, updated, destroyedActors>>

assetVars == <<loadingPromise, loads, bytes>>

vars == <<entities, systems, nextEntityId, entitiesToDestroy, pc, current,
          invoked, status, lastEntity, issued, queuedLive, registrationOrder,
          sceneVars, assetVars>>

\* ------------------------------------------------------ ComponentContainer
\* new ComponentContainer(): an empty #map.
EmptyContainer == [t \in {} |-> 1]

\* An add that keeps the instance the container already holds for the class.
ContainerAdd_KeepFirst(container, component) ==
    [t \in DOMAIN container \cup {component.type} |->
        IF t \in DOMAIN container THEN container[t] ELSE component.value]

\* ComponentContainer.add: #map.set(component.constructor, component)
ContainerAdd(container, component) ==
    [t \in DOMAIN container \cup {component.type} |->
        IF t = component.type THEN component.value ELSE container[t]]

\* ComponentContainer.has
ContainerHas(container, componentClass) == componentClass \in DOMAIN container

\* ComponentContainer.hasAll: false at the first class that is missing
ContainerHasAll(container, componentClasses) ==
    ~ \E componentClass \in componentClasses : componentClass \notin DOMAIN container

\* A remove that clears the container.
ContainerRemove_Clear(container, componentClass) ==
    [t \in {} |-> 1]

\* ComponentContainer.remove: #map.delete(componentClass)
ContainerRemove(container, componentClass) ==
    [t \in DOMAIN container \ {componentClass} |-> container[t]]

\* ------------------------------------------- Map<System, Set<Entity>> helpers
\* The map is a sequence of entries in insertion order.
MapKeys(map) == {map[i].system : i \in 1..Len(map)}

MapIndex(map, system) == CHOOSE i \in 1..Len(map) : map[i].system = system

\* Map.get; only used where the key is present
MapGet(map, system) == map[MapIndex(map, system)].entities

\* A set that re-inserts an existing key at the end.
MapSet_MoveToEnd(map, system, value) ==
    Append(SelectSeq(map, LAMBDA entry : entry.system # system),
           [system |-> system, entities |-> value])

\* Map.set: an existing key keeps its position, a new key goes last
MapSet(map, system, value) ==
    IF system \in MapKeys(map)
    THEN [map EXCEPT ![MapIndex(map, system)].entities = value]
    ELSE Append(map, [system |-> system, entities |-> value])

\* Map.delete
MapDelete(map, system) == SelectSeq(map, LAMBDA entry : entry.system # system)

\* this.#systems.get(system)?.add(entity)
MembersAdd(map, system, entity) ==
    IF system \in MapKeys(map)
    THEN MapSet(map, system, MapGet(map, system) \cup {entity})
    ELSE map

\* this.#systems.get(system)?.delete(entity)
MembersDelete(map, system, entity) ==
    IF system \in MapKeys(map)
    THEN MapSet(map, system, MapGet(map, system) \ {entity})
    ELSE map

\* ------------------------------------------------ membership registration
\* A refresh that never takes an entity out of a membership set.
RefreshEntitySystemRegistration_NoDelete(ents, map, entity, system) ==
    LET present == entity \in DOMAIN ents
        componentFound ==
            \E component \in targetComponentTypes(system) :
                present /\ ContainerHas(ents[entity], component)
    IN  IF componentFound THEN MembersAdd(map, system, entity) ELSE map

\* #refreshEntitySystemRegistration(entity, system): the systems map after it.
\* entityComponents is undefined when the entity is not in storage, and then
\* entityComponents?.hasAll(..) and entityComponents?.has(..) are falsy.
RefreshEntitySystemRegistration(ents, map, entity, system) ==
    LET present == entity \in DOMAIN ents
        hasAllTargets ==
            present /\ ContainerHasAll(ents[entity], targetComponentTypes(system))
        componentFound ==
            \E component \in targetComponentTypes(system) :
                present /\ ContainerHas(ents[entity], component)
    IN  IF requireAllComponentTypes(system) /\ hasAllTargets
        THEN MembersAdd(map, system, entity)
        ELSE IF componentFound
             THEN MembersAdd(map, system, entity)
             ELSE MembersDelete(map, system, entity)

\* The loop of #refreshEntityRegistration from the i-th key of #systems on.
RECURSIVE RefreshFrom(_, _, _, _)
RefreshFrom(ents, map, entity, i) ==
    IF i > Len(map) THEN map
    ELSE RefreshFrom(ents,
                     RefreshEntitySystemRegistration(ents, map, entity, map[i].system),
                     entity, i + 1)

\* A refresh that re-evaluates every entity, not only the one given.
RECURSIVE RefreshAllFrom(_, _, _)
RefreshAllFrom(ents, map, todo) ==
    IF todo = {} THEN map
    ELSE LET entity == CHOOSE e \in todo : TRUE
         IN  RefreshAllFrom(ents, RefreshFrom(ents, map, entity, 1), todo \ {entity})

RefreshEntityRegistration_All(ents, map, entity) ==
    RefreshAllFrom(ents, map, EntityIds)

\* #refreshEntityRegistration(entity)
RefreshEntityRegistration(ents, map, entity) == RefreshFrom(ents, map, entity, 1)

\* The loop of addSystem over this.#entities.keys(): ids ascend with insertion.
RECURSIVE Backfill(_, _, _, _)
Backfill(ents, map, system, todo) ==
    IF todo = {} THEN map
    ELSE LET entity == CHOOSE e \in todo : \A other \in todo : e <= other
         IN  Backfill(ents,
                      RefreshEntitySystemRegistration(ents, map, entity, system),
                      system, todo \ {entity})

\* A destroy that takes the entity out by position, splice(indexOf(entity), 1):
\* for an entity that is not in storage the position is -1 and the last entry
\* goes.
DestroyEntity_Splice(ents, map, entity) ==
    LET victim == IF entity \in DOMAIN ents \/ DOMAIN ents = {}
                  THEN entity
                  ELSE CHOOSE e \in DOMAIN ents : \A other \in DOMAIN ents : other <= e
    IN  [entities |-> [e \in DOMAIN ents \ {victim} |-> ents[e]],
         systems  |-> [i \in 1..Len(map) |->
                         [map[i] EXCEPT !.entities = map[i].entities \ {victim}]]]

\* #destroyEntity(entity): storage and systems map after it.
DestroyEntity(ents, map, entity) ==
    [entities |-> [e \in DOMAIN ents \ {entity} |-> ents[e]],
     systems  |-> [i \in 1..Len(map) |->
                     [map[i] EXCEPT !.entities = map[i].entities \ {entity}]]]

\* The second loop of update(): #destroyEntity on the queue from index i on.
RECURSIVE DestroyFrom(_, _, _, _)
DestroyFrom(ents, map, queue, i) ==
    IF i > Len(queue) THEN [entities |-> ents, systems |-> map]
    ELSE LET after == DestroyEntity(ents, map, queue[i])
         IN  DestroyFrom(after.entities, after.systems, queue, i + 1)

\* getEntities(system): the membership set, or "absent" for undefined
GetEntities(system) ==
    IF system \in MapKeys(systems) THEN MapGet(systems, system) ELSE "absent"

\* getComponents(entity): the container, or "absent" for undefined
GetComponents(entity) ==
    IF entity \in DOMAIN entities THEN entities[entity] ELSE "absent"

\* ------------------------------------------------------------------- state
Init ==
    /\ entities = [e \in {} |-> EmptyContainer]
    /\ systems = <<>>
    /\ nextEntityId = 0
    /\ entitiesToDestroy = <<>>
    /\ pc = "idle"
    /\ current = 0
    /\ invoked = <<>>
    /\ status = "none"
    /\ lastEntity = -1
    /\ issued = {}
    /\ queuedLive = {}
    /\ registrationOrder = <<>>
    /\ entityActors = [e \in {} |-> "none"]
    /\ visited = {}
    /\ updated = {}
    /\ destroyedActors = {}
    /\ loadingPromise = 0
    /\ loads = <<>>
    /\ bytes = 0

\* The registry's API as a System reaches it (System.addEntity, removeEntity,
\* removeEntity_Immediate, addComponent, removeComponent) may be called while
\* an update of a system runs as well as between ticks.
CallableBySystem == pc \in {"idle", "systems"}

\* addSystem, removeSystem and update are called between ticks only.
CallableByOwner == pc = "idle"

updateVars == <<pc, current, invoked>>

\* An addEntity that hands out the same identifier again.
AddEntity_Reissue ==
    /\ CallableBySystem
    /\ nextEntityId < MaxEntities
    /\ LET entity == IF nextEntityId = 0 THEN 0 ELSE nextEntityId - 1
       IN  /\ nextEntityId' = nextEntityId + 1
           /\ entities' = [e \in DOMAIN entities \cup {entity} |->
                             IF e = entity THEN EmptyContainer ELSE entities[e]]
           /\ lastEntity' = entity
           /\ issued' = issued \cup {entity}
    /\ status' = "none"
    /\ UNCHANGED <<systems, entitiesToDestroy, queuedLive, registrationOrder,
                   updateVars>>
    /\ UNCHANGED <<sceneVars, assetVars>>

\* addEntity()
AddEntity ==
    /\ CallableBySystem
    /\ nextEntityId < MaxEntities
    /\ LET entity == nextEntityId
       IN  /\ nextEntityId' = nextEntityId + 1
           /\ entities' = [e \in DOMAIN entities \cup {entity} |->
                             IF e = entity THEN EmptyContainer ELSE entities[e]]
           /\ lastEntity' = entity
           /\ issued' = issued \cup {entity}
    /\ status' = "none"
    /\ UNCHANGED <<systems, entitiesToDestroy, queuedLive, registrationOrder,
                   updateVars>>
    /\ UNCHANGED <<sceneVars, assetVars>>

\* A removeEntity that destroys at once instead of queueing.
RemoveEntity_Eager(entity) ==
    /\ CallableBySystem
    /\ entitiesToDestroy' = Append(entitiesToDestroy, entity)
    /\ queuedLive' = queuedLive \cup ({entity} \cap DOMAIN entities)
    /\ LET after == DestroyEntity(entities, systems, entity)
       IN  /\ entities' = after.entities
           /\ systems' = after.systems
    /\ status' = "none"
    /\ UNCHANGED <<nextEntityId, lastEntity, issued, registrationOrder, updateVars>>
    /\ UNCHANGED <<sceneVars, assetVars>>

\* removeEntity(entity)
RemoveEntity(entity) ==
    /\ CallableBySystem
    /\ entitiesToDestroy' = Append(entitiesToDestroy, entity)
    /\ queuedLive' = queuedLive \cup ({entity} \cap DOMAIN entities)
    /\ status' = "none"
    /\ UNCHANGED <<entities, systems, nextEntityId, lastEntity, issued,
                   registrationOrder, updateVars>>
    /\ UNCHANGED <<sceneVars, assetVars>>

\* removeEntity_Immediate(entity): this.#entities.delete(entity)
RemoveEntity_Immediate(entity) ==
    /\ CallableBySystem
    /\ entity \in DOMAIN entities
    /\ entities' = [e \in DOMAIN entities \ {entity} |-> entities[e]]
    /\ status' = "none"
    /\ UNCHANGED <<systems, nextEntityId, entitiesToDestroy, queuedLive, lastEntity,
                   issued, registrationOrder, updateVars>>
    /\ UNCHANGED <<sceneVars, assetVars>>

\* An addComponent that creates a container for an entity that has none.
AddComponent_Upsert(entity, component) ==
    /\ CallableBySystem
    /\ entities' = [e \in DOMAIN entities \cup {entity} |->
                      IF e = entity
                      THEN ContainerAdd(IF entity \in DOMAIN entities
                                        THEN entities[entity]
                                        ELSE EmptyContainer, component)
                      ELSE entities[e]]
    /\ systems' = RefreshEntityRegistration(entities', systems, entity)
    /\ status' = "none"
    /\ UNCHANGED <<nextEntityId, entitiesToDestroy, queuedLive, lastEntity, issued,
                   registrationOrder, updateVars>>
    /\ UNCHANGED <<sceneVars, assetVars>>

\* addComponent(entity, component)
AddComponent(entity, component) ==
    /\ CallableBySystem
    /\ entities' = IF entity \in DOMAIN entities
                   THEN [entities EXCEPT ![entity] = ContainerAdd(@, component)]
                   ELSE entities
    /\ systems' = RefreshEntityRegistration(entities', systems, entity)
    /\ status' = "none"
    /\ UNCHANGED <<nextEntityId, entitiesToDestroy, queuedLive, lastEntity, issued,
                   registrationOrder, updateVars>>
    /\ UNCHANGED <<sceneVars, assetVars>>

\* removeComponent(entity, componentClass)
RemoveComponent(entity, componentClass) ==
    /\ CallableBySystem
    /\ entities' = IF entity \in DOMAIN entities
                   THEN [entities EXCEPT ![entity] = ContainerRemove(@, componentClass)]
                   ELSE entities
    /\ systems' = RefreshEntityRegistration(entities', systems, entity)
    /\ status' = "none"
    /\ UNCHANGED <<nextEntityId, entitiesToDestroy, queuedLive, lastEntity, issued,
                   registrationOrder, updateVars>>
    /\ UNCHANGED <<sceneVars, assetVars>>

\* An addSystem without the check of targetComponentTypes.size.
AddSystem_NoGuard(system) ==
    /\ CallableByOwner
    /\ systems' = Backfill(entities, MapSet(systems, system, {}), system,
                           DOMAIN entities)
    /\ registrationOrder' = IF system \in MapKeys(systems)
                            THEN registrationOrder
                            ELSE Append(registrationOrder, system)
    /\ status' = "none"
    /\ UNCHANGED <<entities, nextEntityId, entitiesToDestroy, queuedLive,
                   lastEntity, issued, pc, current, invoked>>
    /\ UNCHANGED <<sceneVars, assetVars>>

\* addSystem(system)
AddSystem(system) ==
    /\ CallableByOwner
    /\ IF Cardinality(targetComponentTypes(system)) = 0
       THEN /\ status' = "configError"
            /\ UNCHANGED <<systems, registrationOrder>>
       ELSE /\ systems' = Backfill(entities, MapSet(systems, system, {}), system,
                                   DOMAIN entities)
            /\ registrationOrder' = IF system \in MapKeys(systems)
                                    THEN registrationOrder
                                    ELSE Append(registrationOrder, system)
            /\ status' = "none"
    /\ UNCHANGED <<entities, nextEntityId, entitiesToDestroy, queuedLive,
                   lastEntity, issued, pc, current, invoked>>
    /\ UNCHANGED <<sceneVars, assetVars>>

\* A removeSystem that empties the membership set and keeps the system.
RemoveSystem_KeepsKey(system) ==
    /\ CallableByOwner
    /\ system \in MapKeys(systems)
    /\ systems' = MapSet(systems, system, {})
    /\ registrationOrder' = registrationOrder
    /\ status' = "none"
    /\ UNCHANGED <<entities, nextEntityId, entitiesToDestroy, queuedLive,
                   lastEntity, issued, updateVars>>
    /\ UNCHANGED <<sceneVars, assetVars>>

\* removeSystem(system)
RemoveSystem(system) ==
    /\ CallableByOwner
    /\ system \in MapKeys(systems)
    /\ systems' = MapDelete(systems, system)
    /\ registrationOrder' = SelectSeq(registrationOrder, LAMBDA s : s # system)
    /\ status' = "none"
    /\ UNCHANGED <<entities, nextEntityId, entitiesToDestroy, queuedLive,
                   lastEntity, issued, updateVars>>
    /\ UNCHANGED <<sceneVars, assetVars>>

\* update(): entry, up to the first call of system.update
UpdateBegin ==
    /\ pc = "idle"
    /\ IF Len(systems) = 0
       THEN /\ pc' = "drain"
            /\ current' = 0
            /\ invoked' = <<>>
       ELSE /\ pc' = "systems"
            /\ current' = 1
            /\ invoked' = <<systems[1].system>>
    /\ status' = "none"
    /\ UNCHANGED <<entities, systems, nextEntityId, entitiesToDestroy, queuedLive,
                   lastEntity, issued, registrationOrder>>
    /\ UNCHANGED <<sceneVars, assetVars>>

\* update(): the running system.update returns; the loop calls the next one
\* or ends
SystemReturn ==
    /\ pc = "systems"
    /\ IF current < Len(systems)
       THEN /\ pc' = "systems"
            /\ current' = current + 1
            /\ invoked' = Append(invoked, systems[current + 1].system)
       ELSE /\ pc' = "drain"
            /\ current' = 0
            /\ invoked' = invoked
    /\ status' = "none"
    /\ UNCHANGED <<entities, systems, nextEntityId, entitiesToDestroy, queuedLive,
                   lastEntity, issued, registrationOrder>>
    /\ UNCHANGED <<sceneVars, assetVars>>

\* update(): the running system.update throws; update() has no handler, so the
\* exception leaves it before the destruction loop
SystemThrow ==
    /\ pc = "systems"
    /\ pc' = "idle"
    /\ current' = 0
    /\ invoked' = <<>>
    /\ status' = "threw"
    /\ UNCHANGED <<entities, systems, nextEntityId, entitiesToDestroy, queuedLive,
                   lastEntity, issued, registrationOrder>>
    /\ UNCHANGED <<sceneVars, assetVars>>

\* update(): the destruction loop, then return
Drain ==
    /\ pc = "drain"
    /\ LET after == DestroyFrom(entities, systems, entitiesToDestroy, 1)
       IN  /\ entities' = after.entities
           /\ systems' = after.systems
    /\ pc' = "idle"
    /\ current' = 0
    /\ invoked' = <<>>
    /\ status' = "none"
    /\ UNCHANGED <<nextEntityId, entitiesToDestroy, queuedLive, lastEntity, issued,
                   registrationOrder>>
    /\ UNCHANGED <<sceneVars, assetVars>>

Next ==
    \/ AddEntity
    \/ \E entity \in EntityIds :
          Len(entitiesToDestroy) < MaxQueue /\ RemoveEntity(entity)
    \/ \E entity \in EntityIds : RemoveEntity_Immediate(entity)
    \/ \E entity \in EntityIds, component \in Component : AddComponent(entity, component)
    \/ \E entity \in EntityIds, componentClass \in ComponentTypes :
          RemoveComponent(entity, componentClass)
    \/ \E system \in Systems : AddSystem(system)
    \/ \E system \in Systems : RemoveSystem(system)
    \/ UpdateBegin
    \/ SystemReturn
    \/ SystemThrow
    \/ Drain

Spec == Init /\ [][Next]_vars

\* The registry when callers repeat a destruction request: the queue takes
\* MaxQueue requests and one more for an entity that is in the queue already.
\* Entities leave storage through the queue only, and components carry the
\* first payload.
QueueHasRoom(entity) ==
    \/ Len(entitiesToDestroy) < MaxQueue
    \/ /\ Len(entitiesToDestroy) < MaxQueue + 1
       /\ \E i \in 1..Len(entitiesToDestroy) : entitiesToDestroy[i] = entity

NextRequeue ==
    \/ AddEntity
    \/ \E entity \in EntityIds : QueueHasRoom(entity) /\ RemoveEntity(entity)
    \/ \E entity \in EntityIds, componentClass \in ComponentTypes :
          AddComponent(entity, [type |-> componentClass, value |-> 1])
    \/ \E entity \in EntityIds, componentClass \in ComponentTypes :
          RemoveComponent(entity, componentClass)
    \/ \E system \in Systems : AddSystem(system)
    \/ \E system \in Systems : RemoveSystem(system)
    \/ UpdateBegin
    \/ SystemReturn
    \/ SystemThrow
    \/ Drain

SpecRequeue == Init /\ [][NextRequeue]_vars

\* The registry when every component carries the first payload: all of the
\* registry's operations, with instances of a class indistinguishable.
NextOnePayload ==
    \/ AddEntity
    \/ \E entity \in EntityIds :
          Len(entitiesToDestroy) < MaxQueue /\ RemoveEntity(entity)
    \/ \E entity \in EntityIds : RemoveEntity_Immediate(entity)
    \/ \E entity \in EntityIds, componentClass \in ComponentTypes :
          AddComponent(entity, [type |-> componentClass, value |-> 1])
    \/ \E entity \in EntityIds, componentClass \in ComponentTypes :
          RemoveComponent(entity, componentClass)
    \/ \E system \in Systems : AddSystem(system)
    \/ \E system \in Systems : RemoveSystem(system)
    \/ UpdateBegin
    \/ SystemReturn
    \/ SystemThrow
    \/ Drain

SpecOnePayload == Init /\ [][NextOnePayload]_vars

\* ------------------------------------------------------------------- Scene
\* The state after new Scene() without a config: a new registry, the scene's
\* own entity, and the SceneSystem registered (the backfill finds no member).
InitScene ==
    /\ entities = (0 :> EmptyContainer)
    /\ systems = <<[system |-> SceneSystem, entities |-> {}]>>
    /\ nextEntityId = 1
    /\ entitiesToDestroy = <<>>
    /\ pc = "idle"
    /\ current = 0
    /\ invoked = <<>>
    /\ status = "none"
    /\ lastEntity = 0
    /\ issued = {0}
    /\ queuedLive = {}
    /\ registrationOrder = <<SceneSystem>>
    /\ entityActors = [e \in {} |-> "none"]
    /\ visited = {}
    /\ updated = {}
    /\ destroyedActors = {}
    /\ loadingPromise = 0
    /\ loads = <<>>
    /\ bytes = 0

\* Identifiers a caller may pass to the Scene: the scene's own entity and the
\* MaxEntities actors the model adds, whether issued already or not.
SceneEntityIds == 0..MaxEntities

\* The Scene is called between updates, and by Actor.onUpdate while
\* SceneSystem.update runs, once the loop has called an actor's update.
CallableByActor == pc = "idle" \/ (pc = "systems" /\ updated # {})

\* Scene.addActor(actor): ecs.addEntity(), ecs.addComponent(entity, new
\* ActorComponent()), system.entityActors.set(entity, actor)
SceneAddActor(actor) ==
    /\ CallableByActor
    /\ nextEntityId < MaxEntities + 1
    /\ LET entity == nextEntityId
           component == [type |-> ActorComponent, value |-> 1]
       IN  /\ nextEntityId' = nextEntityId + 1
           /\ entities' = [e \in DOMAIN entities \cup {entity} |->
                             IF e = entity
                             THEN ContainerAdd(EmptyContainer, component)
                             ELSE entities[e]]
           /\ systems' = RefreshEntityRegistration(entities', systems, entity)
           /\ entityActors' = [e \in DOMAIN entityActors \cup {entity} |->
                                 IF e = entity THEN actor ELSE entityActors[e]]
           /\ lastEntity' = entity
           /\ issued' = issued \cup {entity}
    /\ status' = "none"
    /\ UNCHANGED <<entitiesToDestroy, queuedLive, registrationOrder, updateVars>>
    /\ UNCHANGED <<visited, updated, destroyedActors, assetVars>>

\* A destroyActor that leaves the actor in entityActors.
SceneDestroyActor_KeepsActor(actorId) ==
    /\ CallableByActor
    /\ entityActors' = entityActors
    /\ destroyedActors' = destroyedActors \cup ({actorId} \cap DOMAIN entityActors)
    /\ entitiesToDestroy' = Append(entitiesToDestroy, actorId)
    /\ queuedLive' = queuedLive \cup ({actorId} \cap DOMAIN entities)
    /\ status' = "none"
    /\ UNCHANGED <<entities, systems, nextEntityId, lastEntity, issued,
                   registrationOrder, updateVars>>
    /\ UNCHANGED <<visited, updated, assetVars>>

\* Scene.destroyActor(actorId): system.entityActors.delete(actorId),
\* ecs.removeEntity(actorId)
SceneDestroyActor(actorId) ==
    /\ CallableByActor
    /\ entityActors' = [e \in DOMAIN entityActors \ {actorId} |-> entityActors[e]]
    /\ destroyedActors' = destroyedActors \cup ({actorId} \cap DOMAIN entityActors)
    /\ entitiesToDestroy' = Append(entitiesToDestroy, actorId)
    /\ queuedLive' = queuedLive \cup ({actorId} \cap DOMAIN entities)
    /\ status' = "none"
    /\ UNCHANGED <<entities, systems, nextEntityId, lastEntity, issued,
                   registrationOrder, updateVars>>
    /\ UNCHANGED <<visited, updated, assetVars>>

\* Scene.getActor(actorId): the actor, or "absent" for undefined
SceneGetActor(actorId) ==
    IF actorId \in DOMAIN entityActors THEN entityActors[actorId] ELSE "absent"

\* Scene.update(deltaTime) is ecs.update(deltaTime): entry, up to the call of
\* SceneSystem.update with the system's membership set.
SceneUpdateBegin ==
    /\ pc = "idle"
    /\ IF Len(systems) = 0
       THEN /\ pc' = "drain"
            /\ current' = 0
            /\ invoked' = <<>>
       ELSE /\ pc' = "systems"
            /\ current' = 1
            /\ invoked' = <<systems[1].system>>
    /\ visited' = {}
    /\ updated' = {}
    /\ status' = "none"
    /\ UNCHANGED <<entities, systems, nextEntityId, entitiesToDestroy, queuedLive,
                   lastEntity, issued, registrationOrder>>
    /\ UNCHANGED <<entityActors, destroyedActors, assetVars>>

\* The members of the set given to SceneSystem.update that its loop has not
\* reached. The set is the live membership set: a member added while the loop
\* runs is reached too.
SceneLoopRest == systems[current].entities \ visited

\* One iteration of the loop of SceneSystem.update. The set iterates in
\* insertion order, and members are inserted in the order of their ids.
SceneSystemVisit ==
    /\ pc = "systems"
    /\ systems[current].system = SceneSystem
    /\ SceneLoopRest # {}
    /\ LET entity == CHOOSE e \in SceneLoopRest : \A other \in SceneLoopRest : e <= other
       IN  /\ visited' = visited \cup {entity}
           /\ updated' =
                 IF entity \notin DOMAIN entities THEN updated
                 ELSE IF ContainerHas(GetComponents(entity), ActorComponent)
                      THEN IF SceneGetActor(entity) = "absent"
                           THEN updated
                           ELSE updated \cup {entity}
                      ELSE updated
    /\ status' = "none"
    /\ UNCHANGED <<entities, systems, nextEntityId, entitiesToDestroy, queuedLive,
                   lastEntity, issued, registrationOrder, updateVars>>
    /\ UNCHANGED <<entityActors, destroyedActors, assetVars>>

\* Scene.update: ecs.update with SceneSystem.update spelled out. The system
\* returns when its loop has reached every member; an exception leaves
\* ecs.update when an actor's update throws; the destruction loop follows a
\* return.
NextScene ==
    \/ \E actor \in Actors : SceneAddActor(actor)
    \/ \E actorId \in SceneEntityIds :
          Len(entitiesToDestroy) < MaxQueue /\ SceneDestroyActor(actorId)
    \/ SceneUpdateBegin
    \/ SceneSystemVisit
    \/ pc = "systems" /\ SceneLoopRest = {} /\ SystemReturn
    \/ updated # {} /\ SystemThrow
    \/ Drain

SpecScene == InitScene /\ [][NextScene]_vars

\* --------------------------------------------------------------- GameAsset
\* The registry's state, which a GameAsset does not touch.
registryVars == <<entities, systems, nextEntityId, entitiesToDestroy, pc, current,
                  invoked, status, lastEntity, issued, queuedLive,
                  registrationOrder>>

\* load(), up to its await: the executor of the new promise runs up to the
\* await of fetchAsset, which has called fetch; loadingPromise is assigned the
\* new promise; load awaits it.
Load ==
    /\ Len(loads) < MaxLoads
    /\ loads' = Append(loads, [at |-> "fetch", received |-> 0, threw |-> FALSE])
    /\ loadingPromise' = Len(loads) + 1
    /\ UNCHANGED <<bytes, registryVars, sceneVars>>

\* fetchAsset of call k: fetch settles. A rejection and a response that is
\* not ok both throw out of fetchAsset; the executor catches and resolves the
\* promise.
FetchSettles(k, ok) ==
    /\ loads[k].at = "fetch"
    /\ loads' = IF ok
                THEN [loads EXCEPT ![k].at = "read"]
                ELSE [loads EXCEPT ![k].at = "resolved", ![k].threw = TRUE]
    /\ UNCHANGED <<loadingPromise, bytes, registryVars, sceneVars>>

\* fetchAsset of call k: reader.read() delivers a chunk.
ReadChunk(k) ==
    /\ loads[k].at = "read"
    /\ loads[k].received < MaxChunks
    /\ loads' = [loads EXCEPT ![k].received = @ + 1]
    /\ UNCHANGED <<loadingPromise, bytes, registryVars, sceneVars>>

\* fetchAsset of call k: reader.read() reports done; bytes is replaced by the
\* chunks received, fetchAsset returns and the executor resolves the promise.
ReadDone(k) ==
    /\ loads[k].at = "read"
    /\ bytes' = loads[k].received
    /\ loads' = [loads EXCEPT ![k].at = "resolved"]
    /\ UNCHANGED <<loadingPromise, registryVars, sceneVars>>

\* load() of call k after its await: loadingPromise = undefined, return.
LoadContinues(k) ==
    /\ loads[k].at = "resolved"
    /\ loadingPromise' = 0
    /\ loads' = [loads EXCEPT ![k].at = "returned"]
    /\ UNCHANGED <<bytes, registryVars, sceneVars>>

NextAsset ==
    \/ Load
    \/ \E k \in 1..Len(loads), ok \in BOOLEAN : FetchSettles(k, ok)
    \/ \E k \in 1..Len(loads) : ReadChunk(k)
    \/ \E k \in 1..Len(loads) : ReadDone(k)
    \/ \E k \in 1..Len(loads) : LoadContinues(k)

SpecAsset == Init /\ [][NextAsset]_vars

\* ------------------------------------------------------------ properties
\* The membership policy of a system as its flag states it: every target type
\* for requireAllComponentTypes, at least one otherwise.
Matches(system, container) ==
    IF requireAllComponentTypes(system)
    THEN \A t \in targetComponentTypes(system) : t \in DOMAIN container
    ELSE \E t \in targetComponentTypes(system) : t \in DOMAIN container

\* Entities that occur in the destruction queue.
Queued == {entitiesToDestroy[i] : i \in 1..Len(entitiesToDestroy)}

\* Systems whose membership set holds the entity.
MembershipOf(map, entity) ==
    {map[i].system : i \in {j \in 1..Len(map) : entity \in map[j].entities}}

\* C1: for every registered system with requireAllComponentTypes and every
\* entity in storage, the entity is in the system's membership set exactly
\* when its container holds every target type of the system.
AllPolicyMembership ==
    \A i \in 1..Len(systems) :
        requireAllComponentTypes(systems[i].system) =>
            \A e \in DOMAIN entities :
                e \in systems[i].entities <=>
                    \A t \in targetComponentTypes(systems[i].system) :
                        t \in DOMAIN entities[e]

\* C2: for every registered system without requireAllComponentTypes and every
\* entity in storage, the entity is in the system's membership set exactly
\* when its container holds at least one target type of the system.
AnyPolicyMembership ==
    \A i \in 1..Len(systems) :
        ~ requireAllComponentTypes(systems[i].system) =>
            \A e \in DOMAIN entities :
                e \in systems[i].entities <=>
                    \E t \in targetComponentTypes(systems[i].system) :
                        t \in DOMAIN entities[e]

\* C2 witness: while the second system of an update runs, with a request in
\* the destruction queue, an ANY system has one stored entity as a member and
\* another stored entity, holding no target type, as a non-member.
AnyPolicyWitness ==
    /\ pc = "systems"
    /\ current = 2
    /\ Len(entitiesToDestroy) > 0
    /\ \E i \in 1..Len(systems) :
          /\ ~ requireAllComponentTypes(systems[i].system)
          /\ \E e1, e2 \in DOMAIN entities :
                /\ e1 \in systems[i].entities
                /\ DOMAIN entities[e1] # {}
                /\ e2 \notin systems[i].entities

\* C3: removeEntity changes neither storage nor any membership set; while the
\* systems of an update are still running a queued entity in storage keeps its
\* container and its memberships unless another call (removeEntity_Immediate,
\* addComponent, removeComponent) is made on it; and when update returns every
\* queued entity is absent from storage and from every membership set.
DeferredDestruction ==
    [][ /\ (\E e \in EntityIds : RemoveEntity(e)) =>
               /\ entities' = entities
               /\ systems' = systems
        /\ pc = "systems" =>
               \A e \in Queued \cap DOMAIN entities :
                   \/ /\ e \in DOMAIN entities'
                      /\ entities'[e] = entities[e]
                      /\ MembershipOf(systems', e) = MembershipOf(systems, e)
                   \/ RemoveEntity_Immediate(e)
                   \/ \E c \in Component : AddComponent(e, c)
                   \/ \E t \in ComponentTypes : RemoveComponent(e, t)
        /\ (pc = "drain" /\ pc' = "idle") =>
               \A e \in Queued :
                   /\ e \notin DOMAIN entities'
                   /\ MembershipOf(systems', e) = {} ]_vars

\* C3 witness: every system of the update has finished, and an entity that was
\* queued while in storage still has its container and a membership.
DeferredDestructionWitness ==
    /\ pc = "drain"
    /\ \E e \in Queued \cap queuedLive :
          /\ e \in DOMAIN entities
          /\ DOMAIN entities[e] # {}
          /\ MembershipOf(systems, e) # {}

\* C4: every membership set contains only entities that are in storage.
MembersAreStored ==
    \A i \in 1..Len(systems) : systems[i].entities \subseteq DOMAIN entities

\* C5: the destruction queue is empty when update returns.
QueueDrainedByUpdate ==
    [][ (pc = "drain" /\ pc' = "idle") => entitiesToDestroy' = <<>> ]_vars

\* C6: an update removes an entity from storage only for a request that was
\* queued while that entity was in storage.
InvalidRequestIsNoOp ==
    [][ (pc = "drain" /\ pc' = "idle") =>
            \A e \in DOMAIN entities \ DOMAIN entities' : e \in queuedLive ]_vars

\* C7: addEntity returns an identifier it never returned before, greater than
\* every identifier returned before, and stores an empty container for it.
MonotonicIds ==
    [][ AddEntity =>
            /\ lastEntity' \notin issued
            /\ \A earlier \in issued : earlier < lastEntity'
            /\ lastEntity' \notin DOMAIN entities
            /\ lastEntity' \in DOMAIN entities'
            /\ entities'[lastEntity'] = EmptyContainer
            /\ \A e \in DOMAIN entities : entities'[e] = entities[e] ]_vars

\* C7 witness: an identifier was issued after an earlier entity was destroyed
\* or while one still is: the last entity is stored with an empty container
\* and an earlier identifier is no longer in storage.
MonotonicIdsWitness ==
    /\ lastEntity >= 1
    /\ lastEntity \in DOMAIN entities
    /\ entities[lastEntity] = EmptyContainer
    /\ \E earlier \in issued : earlier < lastEntity /\ earlier \notin DOMAIN entities

\* C8: when addSystem returns for a system with a non-empty target set, the
\* system's membership set is exactly the set of stored entities that satisfy
\* the system's policy.
RegistrationBackfill ==
    [][ \A s \in Systems :
            (targetComponentTypes(s) # {} /\ AddSystem(s)) =>
                GetEntities(s)' = {e \in DOMAIN entities : Matches(s, entities[e])} ]_vars

\* C9: addSystem with an empty target set raises the configuration error and
\* changes nothing: the system is absent before and after, and storage, the
\* systems map, the queue and the id counter are unchanged.
ConfigurationError ==
    [][ \A s \in Systems :
            (targetComponentTypes(s) = {} /\ AddSystem(s)) =>
                /\ status' = "configError"
                /\ GetEntities(s) = "absent"
                /\ GetEntities(s)' = "absent"
                /\ UNCHANGED <<entities, systems, entitiesToDestroy, nextEntityId>> ]_vars

\* C9 witness: the configuration error was raised on a registry that holds a
\* registered system with a member and a queued request.
ConfigurationErrorWitness ==
    /\ status = "configError"
    /\ Len(entitiesToDestroy) > 0
    /\ \E i \in 1..Len(systems) : systems[i].entities # {}

\* C10: while update runs its systems, the systems invoked so far are the
\* first registered ones in registration order, and when the loop ends every
\* registered system was invoked exactly once, in registration order.
SystemsRunInRegistrationOrder ==
    /\ pc = "systems" =>
          /\ current \in 1..Len(registrationOrder)
          /\ invoked = SubSeq(registrationOrder, 1, current)
    /\ pc = "drain" =>
          /\ invoked = registrationOrder
          /\ {invoked[i] : i \in 1..Len(invoked)} = MapKeys(systems)
          /\ \A i, j \in 1..Len(invoked) : invoked[i] = invoked[j] => i = j

\* C10 witness: the system loop of an update has ended after running two
\* systems, S_all registered before S_any, over a non-empty storage.
SystemsRunInRegistrationOrderWitness ==
    /\ pc = "drain"
    /\ invoked = <<"S_all", "S_any">>
    /\ registrationOrder = <<"S_all", "S_any">>
    /\ DOMAIN entities # {}

\* C11: when a running system calls addComponent or removeComponent on a
\* stored entity, the membership set of every system that runs later in the
\* same update (the set object update hands to it) holds the entity exactly
\* when the entity's new container satisfies that system's policy.
ImmediateComponentMutation ==
    [][ pc = "systems" =>
            \A e \in DOMAIN entities :
                ( \/ \E c \in Component : AddComponent(e, c)
                  \/ \E t \in ComponentTypes : RemoveComponent(e, t) ) =>
                    \A i \in (current + 1)..Len(systems') :
                        e \in systems'[i].entities <=>
                            Matches(systems'[i].system, entities'[e]) ]_vars

\* C12: addComponent and removeComponent for an entity that is not in storage
\* change neither storage, nor the systems map, nor the id counter, nor the
\* queue.
ComponentCallOnMissingEntityIsNoOp ==
    [][ \A e \in EntityIds \ DOMAIN entities :
            ( \/ \E c \in Component : AddComponent(e, c)
              \/ \E t \in ComponentTypes : RemoveComponent(e, t) ) =>
                UNCHANGED <<entities, systems, nextEntityId, entitiesToDestroy>> ]_vars

\* C13: when a system's update throws, the update call that ends with it has
\* removed every queued entity from storage and from every membership set.
DrainAfterThrow ==
    [][ SystemThrow =>
            \A e \in Queued :
                /\ e \notin DOMAIN entities'
                /\ MembershipOf(systems', e) = {} ]_vars

\* C14: removeSystem(s) leaves s without a membership set, every other system
\* with its membership set and its place in the order, and storage, the queue
\* and the id counter as they were; and an update only invokes systems that
\* are registered.
RemoveSystemFrame ==
    [][ /\ \A s \in Systems :
              (s \in MapKeys(systems) /\ RemoveSystem(s)) =>
                  /\ s \notin MapKeys(systems')
                  /\ systems' = SelectSeq(systems, LAMBDA entry : entry.system # s)
                  /\ \A other \in MapKeys(systems) \ {s} :
                        GetEntities(other)' = GetEntities(other)
                  /\ UNCHANGED <<entities, entitiesToDestroy, nextEntityId>>
        /\ \A i \in 1..Len(invoked') : invoked'[i] \in MapKeys(systems') ]_vars

\* C14 witness: a system was unregistered while the other one holds a member
\* and a request is queued, and the update that follows has run its systems.
RemoveSystemFrameWitness ==
    /\ pc = "drain"
    /\ Len(registrationOrder) = 1
    /\ Len(invoked) = 1
    /\ systems[1].entities # {}
    /\ Len(entitiesToDestroy) > 0

\* C15: the destruction loop of update leaves storage and every membership
\* set as they were less the set of queued entities, however often an entity
\* occurs in the queue and in every update that runs the loop.
IdempotentDestruction ==
    [][ (pc = "drain" /\ pc' = "idle") =>
            /\ entities' = [e \in DOMAIN entities \ Queued |-> entities[e]]
            /\ systems' = [i \in 1..Len(systems) |->
                             [systems[i] EXCEPT !.entities = systems[i].entities \ Queued]] ]_vars

\* C15 witness: an entity that was queued twice while in storage is gone
\* after an update, and another entity is still stored.
IdempotentDestructionWitness ==
    /\ pc = "idle"
    /\ Len(entitiesToDestroy) >= 2
    /\ entitiesToDestroy[1] = entitiesToDestroy[2]
    /\ entitiesToDestroy[1] \in queuedLive
    /\ entitiesToDestroy[1] \notin DOMAIN entities
    /\ DOMAIN entities # {}

\* C16: every step either leaves the container of a stored entity with the
\* types it held and the type of a given component, holding that instance for
\* its type and the instances it held for the others, or is not addComponent
\* of that component on that entity.
LastWriteWins ==
    [][ \A e \in DOMAIN entities, c \in Component :
            \/ /\ e \in DOMAIN entities'
               /\ DOMAIN entities'[e] = DOMAIN entities[e] \cup {c.type}
               /\ entities'[e][c.type] = c.value
               /\ \A t \in DOMAIN entities[e] \ {c.type} :
                     entities'[e][t] = entities[e][t]
            \/ ~ AddComponent(e, c) ]_vars

\* C16 witness: a stored entity holds both classes, class A with the second
\* payload.
LastWriteWinsWitness ==
    \E e \in DOMAIN entities :
        /\ DOMAIN entities[e] = {"A", "B"}
        /\ entities[e]["A"] = 2

\* C17: every step either leaves the set of stored entities, the container
\* of every entity other than e, the registered systems and their order, the
\* members other than e of every system, the id counter and the queue
\* unchanged, or is neither addComponent nor removeComponent on the stored
\* entity e.
ComponentCallFrame ==
    [][ \A e \in DOMAIN entities :
            \/ /\ UNCHANGED <<nextEntityId, entitiesToDestroy>>
               /\ DOMAIN entities' = DOMAIN entities
               /\ \A other \in DOMAIN entities \ {e} : entities'[other] = entities[other]
               /\ \/ systems' = systems
                  \/ /\ Len(systems') = Len(systems)
                     /\ \A i \in 1..Len(systems) :
                           /\ systems'[i].system = systems[i].system
                           /\ systems'[i].entities \ {e} = systems[i].entities \ {e}
            \/ ~ ( \/ \E c \in Component : AddComponent(e, c)
                   \/ \E t \in ComponentTypes : RemoveComponent(e, t) ) ]_vars

\* C17 witness: a stored entity is a member of a system while another entity,
\* no longer in storage, is still in a membership set.
ComponentCallFrameWitness ==
    \E e \in DOMAIN entities, other \in EntityIds \ DOMAIN entities :
        /\ MembershipOf(systems, e) # {}
        /\ MembershipOf(systems, other) # {}

\* C18: removeComponent for a type the stored entity does not hold changes
\* neither storage nor any membership set.
RemoveAbsentComponentIsNoOp ==
    [][ \A e \in DOMAIN entities :
            \A t \in ComponentTypes \ DOMAIN entities[e] :
                RemoveComponent(e, t) =>
                    /\ entities' = entities
                    /\ systems' = systems ]_vars

\* C18 witness: a stored entity holds one class and not the other and is a
\* member of a registered system.
RemoveAbsentComponentWitness ==
    \E e \in DOMAIN entities :
        /\ DOMAIN entities[e] = {"A"}
        /\ MembershipOf(systems, e) # {}

\* C19: an issued entity that is absent from storage and from every
\* membership set stays absent from both.
NoResurrection ==
    [][ \A e \in issued :
            (e \notin DOMAIN entities /\ MembershipOf(systems, e) = {}) =>
                (e \notin DOMAIN entities' /\ MembershipOf(systems', e) = {}) ]_vars

\* C19 witness: an entity is gone from storage and from every membership set
\* while a later entity is stored, holds a component and is a member.
NoResurrectionWitness ==
    \E e \in issued :
        /\ e \notin DOMAIN entities
        /\ MembershipOf(systems, e) = {}
        /\ \E later \in DOMAIN entities :
              /\ later > e
              /\ MembershipOf(systems, later) # {}

\* C20: every entity that is a key of SceneSystem.entityActors is in storage
\* and in the membership set of the SceneSystem.
SceneSideTableConsistent ==
    \A e \in DOMAIN entityActors :
        /\ e \in DOMAIN entities
        /\ e \in GetEntities(SceneSystem)


\* C21: no step calls the update of an actor for an entity for which
\* destroyActor was called before while the entity had an actor; this covers
\* the update whose loop iterates over the entity while it is still in storage
\* and in the membership set of the SceneSystem.
DestroyedActorNotUpdated ==
    [][ \A e \in updated' \ updated : e \notin destroyedActors ]_vars

\* C21 witness: the loop of SceneSystem.update has iterated over an entity
\* whose actor was destroyed, which is still in storage and a member of the
\* SceneSystem, without calling an update for it, and it has called the update
\* of another actor.
DestroyedActorNotUpdatedWitness ==
    /\ pc = "systems"
    /\ updated # {}
    /\ \E e \in (destroyedActors \cap visited) \ updated :
          /\ e \in DOMAIN entities
          /\ ContainerHas(entities[e], ActorComponent)
          /\ e \in systems[1].entities


\* C22: addSystem for a system that is registered already leaves the systems
\* map as it was: the system's membership set holds the same entities, every
\* key keeps its position, each key occurs once, so that update calls the
\* system once, and the other membership sets are unchanged.
ReRegistrationIdempotent ==
    [][ \A s \in Systems :
            \/ s \notin MapKeys(systems)
            \/ /\ s \in MapKeys(systems')
               /\ MapGet(systems', s) = MapGet(systems, s)
               /\ Len(systems') = Len(systems)
               /\ \A i \in 1..Len(systems) :
                     /\ systems'[i].system = systems[i].system
                     /\ systems'[i].entities = systems[i].entities
               /\ \A i, j \in 1..Len(systems') :
                     systems'[i].system = systems'[j].system => i = j
            \/ ~ AddSystem(s) ]_vars


\* The load() calls that have not returned.
LoadsInFlight == {k \in 1..Len(loads) : loads[k].at # "returned"}

\* C23: loadingPromise is defined exactly when a load() call is in flight.
LoadingPromiseTracksLoads ==
    (loadingPromise # 0) <=> (LoadsInFlight # {})

====
